---- MODULE Spec2Model ----
(***************************************************************************)
(* Model of package alterations (alterations.go): the word-usage Cache,    *)
(* the State that owns a prefix and a suffix Cache, and the six name       *)
(* generators FlipWords, FlipNumbers, AppendNumbers, AddSuffixWord,        *)
(* AddPrefixWord and FuzzyLabelSearches.                                   *)
(*                                                                         *)
(* A Go string is modelled as a sequence of one-character strings; all     *)
(* characters of the model are ASCII, so byte and rune indices coincide.   *)
(***************************************************************************)
EXTENDS Integers, Sequences, FiniteSets, TLC

(***************************************************************************)
(* Bounds of the model.                                                    *)
(***************************************************************************)
MaxLabel == 3      \* longest label of an input name
MaxMin   == 1      \* largest MinForWordFlip
MaxEdit  == 1      \* largest EditDistance
MaxSeed  == 1      \* largest count a cached word starts a generator call with
NProcs   == 2      \* concurrent callers

(***************************************************************************)
(* Strings.                                                                *)
(***************************************************************************)
\* const ldhChars
ldhChars ==
  << "a","b","c","d","e","f","g","h","i","j","k","l","m",
     "n","o","p","q","r","s","t","u","v","w","x","y","z",
     "0","1","2","3","4","5","6","7","8","9","-" >>

\* strconv.Itoa(i) for the loop values 0..9
Itoa(i) == << ldhChars[27 + i] >>

\* unicode.IsNumber on the characters of the model
IsNumber(ch) == \E i \in 0..9 : << ch >> = Itoa(i)

Range(s) == { s[i] : i \in 1..Len(s) }

\* Go slice expressions s[lo:] and s[:hi] with 0-based bounds
From(s, lo) == SubSeq(s, lo + 1, Len(s))
UpTo(s, hi) == SubSeq(s, 1, hi)

\* strings.Index(s, sep) for a one-character sep: 0-based, -1 when absent
Index(s, sep) ==
  IF \E i \in 1..Len(s) : s[i] = sep
  THEN (CHOOSE i \in 1..Len(s) : s[i] = sep /\ \A j \in 1..(i-1) : s[j] # sep) - 1
  ELSE -1

\* strings.SplitN(s, sep, 2)
SplitN2(s, sep) ==
  LET i == Index(s, sep)
  IN  IF i < 0 THEN << s >> ELSE << UpTo(s, i), From(s, i + 1) >>

\* strings.Split(s, sep)
RECURSIVE Split(_, _)
Split(s, sep) ==
  LET i == Index(s, sep)
  IN  IF i < 0 THEN << s >> ELSE << UpTo(s, i) >> \o Split(From(s, i + 1), sep)

\* strings.Join(parts, sep)
RECURSIVE Join(_, _)
Join(parts, sep) ==
  IF Len(parts) = 0 THEN << >>
  ELSE IF Len(parts) = 1 THEN parts[1]
  ELSE parts[1] \o << sep >> \o Join(Tail(parts), sep)

\* strings.Trim(s, cut) for a one-character cutset
RECURSIVE TrimLeft(_, _)
TrimLeft(s, cut) ==
  IF Len(s) > 0 /\ s[1] = cut THEN TrimLeft(Tail(s), cut) ELSE s

RECURSIVE TrimRight(_, _)
TrimRight(s, cut) ==
  IF Len(s) > 0 /\ s[Len(s)] = cut THEN TrimRight(UpTo(s, Len(s) - 1), cut) ELSE s

Trim(s, cut) == TrimRight(TrimLeft(s, cut), cut)

\* strings.IndexFunc(s, unicode.IsNumber)
IndexFunc(s) ==
  IF \E i \in 1..Len(s) : IsNumber(s[i])
  THEN (CHOOSE i \in 1..Len(s) : IsNumber(s[i]) /\ \A j \in 1..(i-1) : ~IsNumber(s[j])) - 1
  ELSE -1

\* strings.LastIndexFunc(s, unicode.IsNumber)
LastIndexFunc(s) ==
  IF \E i \in 1..Len(s) : IsNumber(s[i])
  THEN (CHOOSE i \in 1..Len(s) : IsNumber(s[i]) /\ \A j \in (i+1)..Len(s) : ~IsNumber(s[j])) - 1
  ELSE -1

\* results = append(results, r...) for every r of a sequence of slices
RECURSIVE Flatten(_)
Flatten(ss) ==
  IF Len(ss) = 0 THEN << >>
  ELSE IF Len(ss) = 1 THEN ss[1]
  ELSE LET h == Len(ss) \div 2
       IN  Flatten(UpTo(ss, h)) \o Flatten(From(ss, h))

(***************************************************************************)
(* The edit primitives of FuzzyLabelSearches.  Each works on rstr, the     *)
(* []rune copy of a candidate; buf is the content of its backing array.    *)
(***************************************************************************)

\* deletions, the step at index i: append(rstr[:i], rstr[i+1:]...) has room
\* in rstr's own array, so it moves rstr[i+1:] one place down inside buf
DeleteAt(buf, i) ==
  [ k \in 1..Len(buf) |-> IF k >= i + 1 /\ k < Len(buf) THEN buf[k + 1] ELSE buf[k] ]

RECURSIVE deletionsOf(_, _)
deletionsOf(buf, i) ==
  IF i >= Len(buf) THEN << >>
  ELSE LET nb  == DeleteAt(buf, i)
           del == UpTo(nb, Len(buf) - 1)
       IN  (IF del # << >> THEN << del >> ELSE << >>) \o deletionsOf(nb, i + 1)

deletions(set) ==
  Flatten([ n \in 1..Len(set) |-> deletionsOf(set[n], 0) ])

\* substitutions: temp := rstr shares rstr's array, so temp[i] = ldh[j]
\* writes buf and the write stays for the later positions
RECURSIVE substitutionsOf(_, _)
substitutionsOf(buf, i) ==
  IF i >= Len(buf) THEN << >>
  ELSE LET at(j) == [ buf EXCEPT ![i + 1] = ldhChars[j] ]
       IN  [ j \in 1..Len(ldhChars) |-> at(j) ]
             \o substitutionsOf(at(Len(ldhChars)), i + 1)

substitutions(set) ==
  Flatten([ n \in 1..Len(set) |-> substitutionsOf(set[n], 0) ])

\* additions, one pass of the inner loop body for position i and symbol j.
\* temp := append(rstr, ldh[0]) writes into rstr's array when it has spare
\* capacity (spare) and into a fresh array otherwise; the result is
\* << the emitted string, the content of rstr afterwards >>
InsertAt(buf, i, j, spare) ==
  LET app  == Append(buf, ldhChars[1])
      temp == [ k \in 1..Len(app) |->
                  IF k = i + 1 THEN ldhChars[j]
                  ELSE IF k > i + 1 THEN app[k - 1] ELSE app[k] ]
  IN  << temp, IF spare THEN UpTo(temp, Len(buf)) ELSE buf >>

\* the inner loop at position i from symbol j on:
\* << the emitted strings, the content of rstr afterwards >>
RECURSIVE additionsAt(_, _, _, _)
additionsAt(buf, i, j, spare) ==
  IF j > Len(ldhChars) THEN << << >>, buf >>
  ELSE LET r    == InsertAt(buf, i, j, spare)
           rest == additionsAt(r[2], i, j + 1, spare)
       IN  << << r[1] >> \o rest[1], rest[2] >>

\* the outer loop from position i on
RECURSIVE additionsOf(_, _, _)
additionsOf(buf, i, spare) ==
  IF i > Len(buf) THEN << >>
  ELSE LET row == additionsAt(buf, i, 1, spare)
       IN  row[1] \o additionsOf(row[2], i + 1, spare)

additions(set, spare) ==
  Flatten([ n \in 1..Len(set) |-> additionsOf(set[n], 0, spare) ])

(***************************************************************************)
(* Cache and State.                                                        *)
(***************************************************************************)
VARIABLES
  Prefixes,        \* State.Prefixes: [Counters, writer, readers]
  Suffixes,        \* State.Suffixes: [Counters, writer, readers]
  MinForWordFlip,  \* State.MinForWordFlip
  EditDistance,    \* State.EditDistance
  call,            \* the generator call made on the State: [op, name, spare]
  result,          \* what that call gave its caller: [kind, names]
  pc,              \* per concurrent caller: the step it is at
  frame,           \* per concurrent caller: its call and the call's locals
  rets             \* per cache and word: the values Update returned, in order

vars == << Prefixes, Suffixes, MinForWordFlip, EditDistance, call, result,
           pc, frame, rets >>

Procs == 1..NProcs

\* NewCache: every seed word at count 0, the RWMutex unlocked
NewCache(seed) ==
  [ Counters |-> [ w \in Range(seed) |-> 0 ], writer |-> {}, readers |-> {} ]

\* the body of Cache.Update on the map: the new map
UpdateCounters(counters, word) ==
  IF word \in DOMAIN counters
  THEN [ counters EXCEPT ![word] = @ + 1 ]
  ELSE [ w \in DOMAIN counters \cup { word } |->
           IF w = word THEN 1 ELSE counters[w] ]

\* the test written count > s.MinForWordFlip
Qualifies_Strict(counters, min) == { k \in DOMAIN counters : counters[k] > min }

\* the test of the filtering loops: count >= s.MinForWordFlip
Qualifies(counters, min) == { k \in DOMAIN counters : counters[k] >= min }

(***************************************************************************)
(* The generators as functions of the name and the State.  A call ends     *)
(* "ok" with the set it returns or "panic" with Go's index-out-of-range    *)
(* run-time panic; the source has no other outcome.  A stringset.Set is a  *)
(* set of strings: Insert and InsertMany are unions, Slice its elements.   *)
(***************************************************************************)
Ok(names) == [ kind |-> "ok", names |-> names ]
Panic == [ kind |-> "panic", names |-> {} ]

\* the name FlipWords inserts for the cached prefix k
flipPrefix(k, parts, domain) ==
  k \o << "-" >> \o Join(Tail(parts), "-") \o << "." >> \o domain

\* the name FlipWords inserts for the cached suffix k
flipSuffix(k, parts, domain) ==
  Join(UpTo(parts, Len(parts) - 1), "-") \o << "-" >> \o k \o << "." >> \o domain

\* FlipWords run alone: [kind, names, pre, suf] with the two maps afterwards
FlipWords(name, pre, suf, min) ==
  LET names == SplitN2(name, ".")
  IN  IF Len(names) < 2
      THEN [ kind |-> "panic", names |-> {}, pre |-> pre, suf |-> suf ]
      ELSE
        LET domain == names[2]
            parts  == Split(names[1], "-")
            pre2   == UpdateCounters(pre, parts[1])
            suf2   == UpdateCounters(suf, parts[Len(parts)])
        IN  IF Len(parts) < 2
            THEN [ kind |-> "ok", names |-> {}, pre |-> pre, suf |-> suf ]
            ELSE [ kind  |-> "ok",
                   names |-> { flipPrefix(k, parts, domain) : k \in Qualifies(pre2, min) }
                        \cup { flipSuffix(k, parts, domain) : k \in Qualifies(suf2, min) },
                   pre   |-> pre2,
                   suf   |-> suf2 ]

secondNumberFlip(name, minIndex) ==
  LET parts == SplitN2(name, ".")
      last  == LastIndexFunc(parts[1])
  IN  IF last < 0 \/ last < minIndex
      THEN << name >>
      ELSE [ i \in 1..10 |-> UpTo(name, last) \o Itoa(i - 1) \o From(name, last + 1) ]
             \o << UpTo(name, last) \o From(name, last + 1) >>

\* FlipNumbers that keeps the digit it flips: n[:first] + i + n[first:]
FlipNumbers_KeepsDigit(name) ==
  LET parts == SplitN2(name, ".")
      first == IndexFunc(parts[1])
      sf(i) == UpTo(name, first) \o Itoa(i) \o From(name, first)
  IN  IF first < 0
      THEN Ok({})
      ELSE Ok(UNION { Range(secondNumberFlip(sf(i), first + 1)) : i \in 0..9 }
              \cup Range(secondNumberFlip(UpTo(name, first) \o From(name, first + 1), -1)))

FlipNumbers(name) ==
  LET parts == SplitN2(name, ".")
      first == IndexFunc(parts[1])
      sf(i) == UpTo(name, first) \o Itoa(i) \o From(name, first + 1)
  IN  IF first < 0
      THEN Ok({})
      ELSE Ok(UNION { Range(secondNumberFlip(sf(i), first + 1)) : i \in 0..9 }
              \cup Range(secondNumberFlip(UpTo(name, first) \o From(name, first + 1), -1)))

\* addSuffix: parts[1] panics when the name had no "."
addSuffix(parts, suffix) ==
  IF Len(parts) < 2
  THEN Panic
  ELSE Ok({ parts[1] \o suffix \o << "." >> \o parts[2],
            parts[1] \o << "-" >> \o suffix \o << "." >> \o parts[2] })

addPrefix(name, prefix) ==
  { prefix \o name, prefix \o << "-" >> \o name }

\* the loops of AppendNumbers and AddSuffixWord: addSuffix for every suffix
addSuffixes(parts, suffixes) ==
  IF \E x \in suffixes : addSuffix(parts, x).kind = "panic"
  THEN Panic
  ELSE Ok(UNION { addSuffix(parts, x).names : x \in suffixes })

AppendNumbers(name) ==
  LET split == SplitN2(name, ".")
      parts == [ split EXCEPT ![1] = Trim(split[1], "-") ]
  IN  IF parts[1] = << >>
      THEN Ok({})
      ELSE addSuffixes(parts, { Itoa(i) : i \in 0..9 })

AddSuffixWord(name, suf, min) ==
  LET split == SplitN2(name, ".")
      parts == [ split EXCEPT ![1] = Trim(split[1], "-") ]
  IN  IF parts[1] = << >>
      THEN Ok({})
      ELSE addSuffixes(parts, Qualifies(suf, min))

AddPrefixWord(name, pre, min) ==
  LET n == Trim(name, "-")
  IN  IF n = << >>
      THEN Ok({})
      ELSE Ok(UNION { addPrefix(n, word) : word \in Qualifies(pre, min) })

\* the rounds of FuzzyLabelSearches: results after i more rounds
RECURSIVE fuzzyRounds(_, _, _)
fuzzyRounds(results, i, spare) ==
  IF i = 0 THEN results
  ELSE fuzzyRounds(results \o additions(results, spare) \o deletions(results)
                     \o substitutions(results),
                   i - 1, spare)

FuzzyLabelSearches(name, edit, spare) ==
  LET parts   == SplitN2(name, ".")
      results == fuzzyRounds(<< parts[1] >>, edit, spare)
      labels  == { Trim(alt, "-") : alt \in Range(results) } \ { << >> }
  IN  IF labels # {} /\ Len(parts) < 2
      THEN Panic
      ELSE Ok({ label \o << "." >> \o parts[2] : label \in labels })

(***************************************************************************)
(* Inputs of the model.                                                    *)
(***************************************************************************)
LabelChars == { "a", "b", "1", "-" }

Labels == UNION { [ 1..n -> LabelChars ] : n \in 0..MaxLabel }

\* tails: plain, with "-" at both ends, with a digit and a second "."
Tails == { << "c" >>, << "-", "c", "-" >>, << "1", ".", "c" >> }

\* names label.tail, and names without any "."
Names == { l \o << "." >> \o t : l \in Labels, t \in Tails } \cup Labels

\* candidate lists handed to additions, deletions and substitutions
Candidates ==
  { << l >> : l \in Labels }
    \cup { << l, m >> : l \in { x \in Labels : Len(x) = 2 },
                        m \in { x \in Labels : Len(x) = 1 } }

\* seed vocabularies handed to NewState
WordLists == { << >>, << << "a" >>, << "b" >> >> }

HasDot(name) == Index(name, ".") >= 0
LabelOf(name) == SplitN2(name, ".")[1]
TailOf(name) == SplitN2(name, ".")[2]

Generators ==
  { "FlipWords", "FlipNumbers", "AppendNumbers", "AddSuffixWord",
    "AddPrefixWord", "FuzzyLabelSearches" }

NoCall == [ op |-> "none", name |-> << >>, set |-> << >>, spare |-> FALSE ]
NoResult == [ kind |-> "none", names |-> {}, list |-> << >> ]

Called(op, name, spare) ==
  [ op |-> op, name |-> name, set |-> << >>, spare |-> spare ]
Returned(r) == [ kind |-> r.kind, names |-> r.names, list |-> << >> ]

(***************************************************************************)
(* Sequential use: one generator call on a State whose caches hold the     *)
(* seed vocabulary with every word seen n times.                           *)
(***************************************************************************)
Seen(cache, n) == [ cache EXCEPT !.Counters = [ w \in DOMAIN @ |-> n ] ]

IdleCallers ==
  /\ pc = [ p \in Procs |-> "done" ]
  /\ frame = [ p \in Procs |-> << >> ]
  /\ rets = << >>

InitGen ==
  /\ \E wordlist \in WordLists, n \in 0..MaxSeed :
       /\ Prefixes = Seen(NewCache(wordlist), n)
       /\ Suffixes = Seen(NewCache(wordlist), n)
  /\ MinForWordFlip \in 0..MaxMin
  /\ EditDistance \in 0..MaxEdit
  /\ call = NoCall
  /\ result = NoResult
  /\ IdleCallers

\* the number generators read nothing of the State
InitNumbers ==
  /\ Prefixes = NewCache(<< >>)
  /\ Suffixes = NewCache(<< >>)
  /\ MinForWordFlip = 0
  /\ EditDistance = 0
  /\ call = NoCall
  /\ result = NoResult
  /\ IdleCallers

CallFlipWords ==
  /\ call.op = "none"
  /\ \E name \in Names :
       LET r == FlipWords(name, Prefixes.Counters, Suffixes.Counters, MinForWordFlip)
       IN  /\ call' = Called("FlipWords", name, FALSE)
           /\ result' = Returned(r)
           /\ Prefixes' = [ Prefixes EXCEPT !.Counters = r.pre ]
           /\ Suffixes' = [ Suffixes EXCEPT !.Counters = r.suf ]
  /\ UNCHANGED << MinForWordFlip, EditDistance, pc, frame, rets >>

CallFlipNumbers ==
  /\ call.op = "none"
  /\ \E name \in Names :
       /\ call' = Called("FlipNumbers", name, FALSE)
       /\ result' = Returned(FlipNumbers(name))
  /\ UNCHANGED << Prefixes, Suffixes, MinForWordFlip, EditDistance, pc, frame, rets >>

CallAppendNumbers ==
  /\ call.op = "none"
  /\ \E name \in Names :
       /\ call' = Called("AppendNumbers", name, FALSE)
       /\ result' = Returned(AppendNumbers(name))
  /\ UNCHANGED << Prefixes, Suffixes, MinForWordFlip, EditDistance, pc, frame, rets >>

CallAddSuffixWord ==
  /\ call.op = "none"
  /\ \E name \in Names :
       /\ call' = Called("AddSuffixWord", name, FALSE)
       /\ result' = Returned(AddSuffixWord(name, Suffixes.Counters, MinForWordFlip))
  /\ UNCHANGED << Prefixes, Suffixes, MinForWordFlip, EditDistance, pc, frame, rets >>

CallAddPrefixWord ==
  /\ call.op = "none"
  /\ \E name \in Names :
       /\ call' = Called("AddPrefixWord", name, FALSE)
       /\ result' = Returned(AddPrefixWord(name, Prefixes.Counters, MinForWordFlip))
  /\ UNCHANGED << Prefixes, Suffixes, MinForWordFlip, EditDistance, pc, frame, rets >>

\* spare: whether []rune(str) left spare capacity in this build and run
CallFuzzyLabelSearches ==
  /\ call.op = "none"
  /\ \E name \in Names, spare \in BOOLEAN :
       /\ call' = Called("FuzzyLabelSearches", name, spare)
       /\ result' = Returned(FuzzyLabelSearches(name, EditDistance, spare))
  /\ UNCHANGED << Prefixes, Suffixes, MinForWordFlip, EditDistance, pc, frame, rets >>

\* the edit primitives on their own
CallEdit(op, set, spare, list) ==
  /\ call' = [ op |-> op, name |-> << >>, set |-> set, spare |-> spare ]
  /\ result' = [ kind |-> "ok", names |-> {}, list |-> list ]
  /\ UNCHANGED << Prefixes, Suffixes, MinForWordFlip, EditDistance, pc, frame, rets >>

CallAdditions ==
  /\ call.op = "none"
  /\ \E set \in Candidates, spare \in BOOLEAN :
       CallEdit("additions", set, spare, additions(set, spare))

CallDeletions ==
  /\ call.op = "none"
  /\ \E set \in Candidates :
       CallEdit("deletions", set, FALSE, deletions(set))

CallSubstitutions ==
  /\ call.op = "none"
  /\ \E set \in Candidates :
       CallEdit("substitutions", set, FALSE, substitutions(set))

NextGen ==
  \/ CallFlipWords
  \/ CallFlipNumbers
  \/ CallAppendNumbers
  \/ CallAddSuffixWord
  \/ CallAddPrefixWord
  \/ CallFuzzyLabelSearches
  \/ CallAdditions
  \/ CallDeletions
  \/ CallSubstitutions

SpecGen == InitGen /\ [][NextGen]_vars

NextNumbers ==
  \/ CallFlipNumbers
  \/ CallAppendNumbers

SpecNumbers == InitNumbers /\ [][NextNumbers]_vars

(***************************************************************************)
(* Concurrent use: NProcs callers share one State; each makes one call,    *)
(* Update on one of the caches or a generator that touches a cache, and    *)
(* runs it one lock operation or one map access at a time.                 *)
(***************************************************************************)
CacheNames == { "Prefixes", "Suffixes" }

CacheOf(c) == IF c = "Prefixes" THEN Prefixes ELSE Suffixes

SetCache(c, v) ==
  IF c = "Prefixes"
  THEN Prefixes' = v /\ UNCHANGED Suffixes
  ELSE Suffixes' = v /\ UNCHANGED Prefixes

\* names and words the concurrent callers pass
ConcNames ==
  { << "a", "-", "b", ".", "c" >>, << ".", "c" >>, << "a" >>, << >> }
ConcWords == { << "a" >> }

\* every word a call of the model can hand to Update
UpdatedWords ==
  ConcWords \cup UNION { Range(Split(LabelOf(n), "-")) : n \in ConcNames }

NoFrame ==
  [ op |-> "none", name |-> << >>, cache |-> "Prefixes", word |-> << >>,
    parts |-> << >>, domain |-> << >>, ok |-> FALSE, val |-> 0,
    snap |-> << >>, seen |-> << >>, newNames |-> {}, kind |-> "none" ]

Init ==
  /\ \E wordlist \in WordLists :
       /\ Prefixes = NewCache(wordlist)
       /\ Suffixes = NewCache(wordlist)
  /\ MinForWordFlip \in 0..MaxMin
  /\ EditDistance = 0
  /\ call = NoCall
  /\ result = NoResult
  /\ pc = [ p \in Procs |-> "idle" ]
  /\ frame = [ p \in Procs |-> NoFrame ]
  /\ rets = [ c \in CacheNames |-> [ w \in UpdatedWords |-> << >> ] ]

Config == << MinForWordFlip, EditDistance, call, result >>

\* a caller calls Cache.Update(word) on one of the caches
BeginUpdate(p) ==
  /\ pc[p] = "idle"
  /\ \E c \in CacheNames, word \in ConcWords :
       frame' = [ frame EXCEPT ![p] =
                    [ NoFrame EXCEPT !.op = "Update", !.name = word,
                                     !.cache = c, !.word = word ] ]
  /\ pc' = [ pc EXCEPT ![p] = "Lock" ]
  /\ UNCHANGED << Prefixes, Suffixes, Config, rets >>

\* FlipWords up to s.Prefixes.Update(pre): the two splits and the early return
BeginFlipWords(p) ==
  /\ pc[p] = "idle"
  /\ \E name \in ConcNames :
       LET names == SplitN2(name, ".")
           parts == Split(names[1], "-")
           f     == [ NoFrame EXCEPT !.op = "FlipWords", !.name = name ]
       IN  IF Len(names) < 2
           THEN /\ frame' = [ frame EXCEPT ![p] = [ NoFrame EXCEPT !.kind = "panic" ] ]
                /\ pc' = [ pc EXCEPT ![p] = "done" ]
           ELSE IF Len(parts) < 2
           THEN /\ frame' = [ frame EXCEPT ![p] = [ NoFrame EXCEPT !.kind = "ok" ] ]
                /\ pc' = [ pc EXCEPT ![p] = "done" ]
           ELSE /\ frame' = [ frame EXCEPT ![p] =
                                [ f EXCEPT !.parts = parts, !.domain = names[2],
                                           !.cache = "Prefixes", !.word = parts[1] ] ]
                /\ pc' = [ pc EXCEPT ![p] = "Lock" ]
  /\ UNCHANGED << Prefixes, Suffixes, Config, rets >>

\* AddSuffixWord up to s.Suffixes.RLock()
BeginAddSuffixWord(p) ==
  /\ pc[p] = "idle"
  /\ \E name \in ConcNames :
       frame' = [ frame EXCEPT ![p] =
                    [ NoFrame EXCEPT !.op = "AddSuffixWord", !.name = name,
                                     !.cache = "Suffixes",
                                     !.parts = SplitN2(name, ".") ] ]
  /\ pc' = [ pc EXCEPT ![p] = "RLock" ]
  /\ UNCHANGED << Prefixes, Suffixes, Config, rets >>

\* AddPrefixWord up to s.Prefixes.RLock()
BeginAddPrefixWord(p) ==
  /\ pc[p] = "idle"
  /\ \E name \in ConcNames :
       frame' = [ frame EXCEPT ![p] =
                    [ NoFrame EXCEPT !.op = "AddPrefixWord", !.name = name,
                                     !.cache = "Prefixes" ] ]
  /\ pc' = [ pc EXCEPT ![p] = "RLock" ]
  /\ UNCHANGED << Prefixes, Suffixes, Config, rets >>

\* c.Lock() when writers do not wait for the writer that holds the lock
Lock_NotExclusive(p) ==
  LET c == frame[p].cache
  IN  /\ pc[p] = "Lock"
      /\ CacheOf(c).readers = {}
      /\ SetCache(c, [ CacheOf(c) EXCEPT !.writer = @ \cup { p } ])
      /\ pc' = [ pc EXCEPT ![p] = "Load" ]
      /\ UNCHANGED << Config, frame, rets >>

\* c.Lock(): waits until no reader and no writer holds the lock
Lock(p) ==
  LET c == frame[p].cache
  IN  /\ pc[p] = "Lock"
      /\ CacheOf(c).writer = {}
      /\ CacheOf(c).readers = {}
      /\ SetCache(c, [ CacheOf(c) EXCEPT !.writer = { p } ])
      /\ pc' = [ pc EXCEPT ![p] = "Load" ]
      /\ UNCHANGED << Config, frame, rets >>

\* Update: _, ok := c.Counters[word], and the read of c.Counters[word]++
Load(p) ==
  LET counters == CacheOf(frame[p].cache).Counters
      word     == frame[p].word
  IN  /\ pc[p] = "Load"
      /\ frame' = [ frame EXCEPT ![p].ok = word \in DOMAIN counters,
                                 ![p].val = IF word \in DOMAIN counters
                                            THEN counters[word] ELSE 0 ]
      /\ pc' = [ pc EXCEPT ![p] = "Store" ]
      /\ UNCHANGED << Prefixes, Suffixes, Config, rets >>

\* Update: the write of c.Counters[word]++, or c.Counters[word] = 1
Store(p) ==
  LET c        == frame[p].cache
      counters == CacheOf(c).Counters
      word     == frame[p].word
      count    == IF frame[p].ok THEN frame[p].val + 1 ELSE 1
  IN  /\ pc[p] = "Store"
      /\ SetCache(c, [ CacheOf(c) EXCEPT !.Counters =
                         [ w \in DOMAIN counters \cup { word } |->
                             IF w = word THEN count ELSE counters[w] ] ])
      /\ pc' = [ pc EXCEPT ![p] = "Unlock" ]
      /\ UNCHANGED << Config, frame, rets >>

\* Update: return c.Counters[word], then the deferred c.Unlock()
Unlock(p) ==
  LET c    == frame[p].cache
      word == frame[p].word
      ret  == CacheOf(c).Counters[word]
  IN  /\ pc[p] = "Unlock"
      /\ SetCache(c, [ CacheOf(c) EXCEPT !.writer = @ \ { p } ])
      /\ rets' = [ rets EXCEPT ![c][word] = Append(@, ret) ]
      /\ pc' = [ pc EXCEPT ![p] = IF frame[p].op = "Update" THEN "done" ELSE "RLock" ]
      /\ frame' = [ frame EXCEPT ![p] =
                      IF frame[p].op = "Update"
                      THEN [ NoFrame EXCEPT !.kind = "ok" ]
                      ELSE [ @ EXCEPT !.ok = FALSE, !.val = 0 ] ]
      /\ UNCHANGED Config

\* what the caller does between RLock() and its range loop:
\* << label it works on, whether it returns before the loop >>
BeforeRange(f) ==
  IF f.op = "AddSuffixWord"
  THEN << [ f.parts EXCEPT ![1] = Trim(f.parts[1], "-") ],
          Trim(f.parts[1], "-") = << >> >>
  ELSE IF f.op = "AddPrefixWord"
  THEN << f.parts, Trim(f.name, "-") = << >> >>
  ELSE << f.parts, FALSE >>

\* c.RLock() when readers do not wait for the writer that holds the lock
RLock_IgnoresWriter(p) ==
  LET c        == frame[p].cache
      counters == CacheOf(c).Counters
      before   == BeforeRange(frame[p])
  IN  /\ pc[p] = "RLock"
      /\ SetCache(c, [ CacheOf(c) EXCEPT !.readers = @ \cup { p } ])
      /\ frame' = [ frame EXCEPT ![p].snap = counters,
                                 ![p].seen = << >>,
                                 ![p].parts = before[1] ]
      /\ pc' = [ pc EXCEPT ![p] =
                   IF before[2] \/ DOMAIN counters = {} THEN "RUnlock" ELSE "Range" ]
      /\ UNCHANGED << Config, rets >>

\* c.RLock(): waits until no writer holds the lock; then the caller's code
\* up to its range loop over c.Counters
RLock(p) ==
  LET c        == frame[p].cache
      counters == CacheOf(c).Counters
      before   == BeforeRange(frame[p])
  IN  /\ pc[p] = "RLock"
      /\ CacheOf(c).writer = {}
      /\ SetCache(c, [ CacheOf(c) EXCEPT !.readers = @ \cup { p } ])
      /\ frame' = [ frame EXCEPT ![p].snap = counters,
                                 ![p].seen = << >>,
                                 ![p].parts = before[1] ]
      /\ pc' = [ pc EXCEPT ![p] =
                   IF before[2] \/ DOMAIN counters = {} THEN "RUnlock" ELSE "Range" ]
      /\ UNCHANGED << Config, rets >>

\* what the body of the range loop inserts for the qualifying word k
RangeBody(f, k) ==
  IF f.op = "FlipWords"
  THEN Ok({ IF f.cache = "Prefixes"
            THEN flipPrefix(k, f.parts, f.domain)
            ELSE flipSuffix(k, f.parts, f.domain) })
  ELSE IF f.op = "AddSuffixWord"
  THEN addSuffix(f.parts, k)
  ELSE Ok(addPrefix(Trim(f.name, "-"), k))

\* one pass of  for k, count := range c.Counters  in any order of the keys
RangeCounters(p) ==
  LET f        == frame[p]
      counters == CacheOf(f.cache).Counters
  IN  /\ pc[p] = "Range"
      /\ \E k \in DOMAIN counters \ DOMAIN f.seen :
           LET seen == [ w \in DOMAIN f.seen \cup { k } |->
                           IF w = k THEN counters[k] ELSE f.seen[w] ]
               body == IF k \in Qualifies(counters, MinForWordFlip)
                       THEN RangeBody(f, k) ELSE Ok({})
           IN  /\ frame' = [ frame EXCEPT ![p].seen = seen,
                                          ![p].newNames = @ \cup body.names,
                                          ![p].kind = IF body.kind = "panic"
                                                      THEN "panic" ELSE @ ]
               /\ pc' = [ pc EXCEPT ![p] =
                            IF body.kind = "panic" \/ DOMAIN counters = DOMAIN seen
                            THEN "RUnlock" ELSE "Range" ]
      /\ UNCHANGED << Prefixes, Suffixes, Config, rets >>

\* c.RUnlock(), direct in FlipWords and deferred in the affix generators;
\* FlipWords goes on to s.Suffixes.Update(post), the others return
RUnlock(p) ==
  LET f    == frame[p]
      more == f.op = "FlipWords" /\ f.cache = "Prefixes"
  IN  /\ pc[p] = "RUnlock"
      /\ SetCache(f.cache, [ CacheOf(f.cache) EXCEPT !.readers = @ \ { p } ])
      /\ frame' = [ frame EXCEPT ![p] =
                      IF more
                      THEN [ f EXCEPT !.cache = "Suffixes",
                                      !.word = f.parts[Len(f.parts)],
                                      !.snap = << >>, !.seen = << >> ]
                      ELSE [ NoFrame EXCEPT !.kind = IF f.kind = "panic"
                                                     THEN "panic" ELSE "ok" ] ]
      /\ pc' = [ pc EXCEPT ![p] = IF more THEN "Lock" ELSE "done" ]
      /\ UNCHANGED << Config, rets >>

Step(p) ==
  \/ BeginUpdate(p)
  \/ BeginFlipWords(p)
  \/ BeginAddSuffixWord(p)
  \/ BeginAddPrefixWord(p)
  \/ Lock(p)
  \/ Load(p)
  \/ Store(p)
  \/ Unlock(p)
  \/ RLock(p)
  \/ RangeCounters(p)
  \/ RUnlock(p)

Next == \E p \in Procs : Step(p)

Spec == Init /\ [][Next]_vars

\* the scheduler lets every caller that can take a step take one
FairSpec == Spec /\ \A p \in Procs : WF_vars(Step(p))

(***************************************************************************)
(* Properties of the generators.                                           *)
(***************************************************************************)
RemoveAt(c, p) == UpTo(c, p - 1) \o From(c, p)
ReplaceAt(c, p, x) == [ c EXCEPT ![p] = x ]
InsertBefore(c, i, x) == UpTo(c, i) \o << x >> \o From(c, i)
EndsWith(n, suffix) ==
  Len(n) >= Len(suffix) /\ From(n, Len(n) - Len(suffix)) = suffix
Untrimmed(label) == label # << >> /\ Trim(label, "-") = label
DigitsOf(label) == { p \in 1..Len(label) : IsNumber(label[p]) }
AllHyphens(label) == label # << >> /\ \A p \in 1..Len(label) : label[p] = "-"
GeneratorCalled == call.op \in Generators
FuzzyCalled ==
  call.op = "FuzzyLabelSearches" /\ HasDot(call.name) /\ EditDistance >= 1
Rejoined(label) == label \o << "." >> \o TailOf(call.name)

\* C2: every generator called with a name that has no "." ends in an
\* explicit InvalidInputError: neither an index panic nor a normal return.
C2_NoDotIsInvalidInput ==
  (GeneratorCalled /\ ~HasDot(call.name)) => result.kind = "InvalidInputError"

\* C3: deletions emits, for every candidate and every position, the
\* candidate without the character at that position (empty strings dropped),
\* so every single-character deletion of a label of length >= 2 is in the
\* set FuzzyLabelSearches returns when EditDistance >= 1.
C3_DeletionsRemoveOnlyOnePosition ==
  /\ call.op = "deletions" =>
       Range(result.list) =
         UNION { { RemoveAt(c, p) : p \in 1..Len(c) } : c \in Range(call.set) }
           \ { << >> }
  /\ (FuzzyCalled /\ Len(LabelOf(call.name)) >= 2) =>
       \A p \in 1..Len(LabelOf(call.name)) :
         Untrimmed(RemoveAt(LabelOf(call.name), p)) =>
           Rejoined(RemoveAt(LabelOf(call.name), p)) \in result.names

\* C4: AppendNumbers, AddSuffixWord and AddPrefixWord return the empty set
\* for a name whose label is made of "-" only, whatever the caches and
\* MinForWordFlip are.
C4_AllHyphenLabelGivesEmpty ==
  ( /\ call.op \in { "AppendNumbers", "AddSuffixWord", "AddPrefixWord" }
    /\ HasDot(call.name)
    /\ AllHyphens(LabelOf(call.name)) )
  => (result.kind = "ok" /\ result.names = {})

\* C6: every name a generator returns for label.tail ends with "." and the
\* tail exactly as it was given.
C6_TailKeptVerbatim ==
  (GeneratorCalled /\ HasDot(call.name)) =>
    \A n \in result.names : EndsWith(n, << "." >> \o TailOf(call.name))

\* C7: FlipNumbers on a name whose label holds exactly one digit returns
\* exactly 11 names, the digit replaced by each of 0..9 and the digit
\* removed, the rest of the name unchanged; a label without a digit gives
\* the empty set.
C7_FlipNumbersOneDigit ==
  (call.op = "FlipNumbers" /\ HasDot(call.name)) =>
    LET digits == DigitsOf(LabelOf(call.name))
    IN  /\ digits = {} => (result.kind = "ok" /\ result.names = {})
        /\ Cardinality(digits) = 1 =>
             LET p == CHOOSE q \in digits : TRUE
             IN  /\ result.kind = "ok"
                 /\ result.names =
                      { ReplaceAt(call.name, p, Itoa(d)[1]) : d \in 0..9 }
                        \cup { RemoveAt(call.name, p) }
                 /\ Cardinality(result.names) = 11

\* FlipNumbers has returned for a label of two characters or more whose only
\* digit is its first character
C7_Witness ==
  /\ call.op = "FlipNumbers"
  /\ HasDot(call.name)
  /\ DigitsOf(LabelOf(call.name)) = { 1 }
  /\ Len(LabelOf(call.name)) >= 2
  /\ Cardinality(result.names) = 11

\* C8: substitutions emits, for every candidate c, position p and ldh
\* symbol x, c with x at p and every other position as in c, and nothing
\* else; so every one-character substitution of the label is in the set
\* FuzzyLabelSearches returns when EditDistance >= 1.
C8_SubstitutionsChangeOnlyOnePosition ==
  /\ call.op = "substitutions" =>
       Range(result.list) =
         UNION { { ReplaceAt(c, p, x) : p \in 1..Len(c), x \in Range(ldhChars) }
                 : c \in Range(call.set) }
  /\ FuzzyCalled =>
       \A p \in 1..Len(LabelOf(call.name)), x \in Range(ldhChars) :
         Untrimmed(ReplaceAt(LabelOf(call.name), p, x)) =>
           Rejoined(ReplaceAt(LabelOf(call.name), p, x)) \in result.names

\* C9: additions emits, for every candidate c of length L, position i in
\* 0..L and ldh symbol x, the string c[0..i) + x + c[i..L), every insertion
\* starting from the unchanged c.
C9_AdditionsInsertIntoTheCandidate ==
  call.op = "additions" =>
    Range(result.list) =
      UNION { { InsertBefore(c, i, x) : i \in 0..Len(c), x \in Range(ldhChars) }
              : c \in Range(call.set) }

(***************************************************************************)
(* Properties of the shared caches.                                        *)
(***************************************************************************)
CountOf(c, w) ==
  IF w \in DOMAIN CacheOf(c).Counters THEN CacheOf(c).Counters[w] ELSE 0

\* callers inside Update(w) on cache c that have written and not yet returned
Written(c, w) ==
  { p \in Procs : pc[p] = "Unlock" /\ frame[p].cache = c /\ frame[p].word = w }

HoldsWrite(p, c) == p \in CacheOf(c).writer
HoldsRead(p, c) == p \in CacheOf(c).readers
AllDone == \A p \in Procs : pc[p] = "done"

UpdatesCounted ==
  \A c \in CacheNames, w \in UpdatedWords :
    /\ rets[c][w] = [ i \in 1..Len(rets[c][w]) |-> i ]
    /\ CountOf(c, w) = Len(rets[c][w]) + Cardinality(Written(c, w))

NeverLowered(old, new) ==
  \A w \in DOMAIN old : w \in DOMAIN new /\ new[w] >= old[w]

CountsOnlyGrow ==
  /\ NeverLowered(Prefixes.Counters, Prefixes'.Counters)
  /\ NeverLowered(Suffixes.Counters, Suffixes'.Counters)

\* C1: Update loses no update.  In every interleaving the values the Update
\* calls on one cache and word have returned are 1, 2, ..., k in that
\* order, each once, and the count of the word is k (k + 1 while one more
\* call has written and not yet returned), so N finished calls leave the
\* count N; no step lowers a count or removes a word.
C1_NoLostUpdates == [](UpdatesCounted) /\ [][CountsOnlyGrow]_vars

\* every caller has returned and Update("a") on Prefixes ran at least twice
C1_Witness ==
  /\ AllDone
  /\ Len(rets["Prefixes"][<< "a" >>]) >= 2
  /\ Prefixes.Counters[<< "a" >>] = Len(rets["Prefixes"][<< "a" >>])

\* FlipWords has left its second loop and is about to return newNames
FlipWordsReturns(p) ==
  /\ frame[p].op = "FlipWords"
  /\ frame[p].cache = "Suffixes"
  /\ pc[p] = "RUnlock"

\* C5: with MinForWordFlip <= 1, FlipWords on a name whose label has a "-"
\* returns a set that contains the name, whatever the other callers do
\* between its Update calls and its loops.
C5_FlipWordsReturnsTheName ==
  \A p \in Procs :
    (FlipWordsReturns(p) /\ MinForWordFlip <= 1) =>
      /\ Index(LabelOf(frame[p].name), "-") >= 0
      /\ frame[p].name \in frame[p].newNames

\* FlipWords is about to return under MinForWordFlip = 1 while another
\* caller is inside a call and the prefix "a" has been updated by more than
\* this call
C5_Witness ==
  \E p \in Procs :
    /\ FlipWordsReturns(p)
    /\ MinForWordFlip = 1
    /\ frame[p].name \in frame[p].newNames
    /\ Prefixes.Counters[<< "a" >>] >= 2
    /\ \E q \in Procs \ { p } : pc[q] \notin { "idle", "done" }

LocksExclude ==
  \A c \in CacheNames :
    /\ Cardinality(CacheOf(c).writer) <= 1
    /\ CacheOf(c).writer = {} \/ CacheOf(c).readers = {}

\* a caller holds exactly the lock its step needs, and none when it waits
\* for a lock, has not called yet or has returned
LocksHeldWhereNeeded ==
  \A p \in Procs, c \in CacheNames :
    /\ HoldsWrite(p, c) <=>
         (pc[p] \in { "Load", "Store", "Unlock" } /\ frame[p].cache = c)
    /\ HoldsRead(p, c) <=>
         (pc[p] \in { "Range", "RUnlock" } /\ frame[p].cache = c)

\* what a loop has read so far is part of the map as it was at RLock, and
\* the map is still that map
LoopsReadOneMap ==
  \A p \in Procs :
    pc[p] \in { "Range", "RUnlock" } =>
      /\ CacheOf(frame[p].cache).Counters = frame[p].snap
      /\ \A k \in DOMAIN frame[p].seen :
           k \in DOMAIN frame[p].snap /\ frame[p].seen[k] = frame[p].snap[k]

\* C10: no Update changes a cache while FlipWords, AddSuffixWord or
\* AddPrefixWord ranges over it: the loop holds the shared lock from before
\* its first read until after its last, what it reads is one state of the
\* map, and a caller that has returned, by return or by panic, holds no
\* lock and none waits for a lock while holding one.
C10_LoopsExcludeUpdate ==
  /\ LocksExclude
  /\ LocksHeldWhereNeeded
  /\ LoopsReadOneMap

\* a loop has read one of two words while an Update waits for the same cache
C10_Witness ==
  \E p \in Procs, q \in Procs :
    /\ pc[p] = "Range"
    /\ Cardinality(DOMAIN frame[p].seen) = 1
    /\ Cardinality(DOMAIN frame[p].snap) >= 2
    /\ pc[q] = "Lock"
    /\ frame[q].cache = frame[p].cache

\* every call returns
Termination == <>AllDone

====
